---- MODULE Spec2Model ----
(***************************************************************************)
(* Telemetry dashboards for an 8x8 RGB LED matrix.                         *)
(*                                                                         *)
(*   f12020show.py  - F1 2020 adapter        ("A", UDP port 20777)         *)
(*   pcars2show.py  - Project Cars 2 adapter ("B", UDP port 5606)          *)
(*                                                                         *)
(* Each script is a blocking receive loop: one datagram is received,       *)
(* classified, decoded, painted (draw_gear, draw_rev) and flushed (show)   *)
(* before the next one is received.  An exception raised while a datagram  *)
(* is handled is caught nowhere, so it ends the process.                   *)
(*                                                                         *)
(* A datagram is a sequence of bytes; byte offset o of the wire format is  *)
(* element o + 1 of the sequence.                                          *)
(***************************************************************************)
EXTENDS Integers, Sequences, FiniteSets, TLC

\* ------------------------------------------------------------------------
\* Program constants
\* ------------------------------------------------------------------------

\* calcsize('<HBBBBQfIBB')
F1_HEADER_SIZE == 24

\* calcsize('<HfffBbHBB4H4B4BH4f4B')
F1_CAR_TELEMETRY_SIZE == 58

\* m_packetFormat expected by the F1 2020 adapter
F1_PACKET_FORMAT == 2020

\* ePacketType.eCarTelemetry (f12020show.py)
eCarTelemetry == 6

\* byte offsets of the header fields read by the F1 2020 adapter
F1_OFF_packetId == 5

F1_OFF_playerCarIndex == 22

\* byte offsets inside one CarTelemetryData record: H fff B | b | H B | B
F1_OFF_gear == 15

F1_OFF_revLightsPercent == 19

\* len(data) >= 12 and data[:12]
PCARS2_HEADER_SIZE == 12

\* ePacketType.eCarPhysics (pcars2show.py)
eCarPhysics == 0

\* calcsize of the car physics format string
PCARS2_CAR_PHYSICS_SIZE == 559

\* byte offsets of the fields read by the Project Cars 2 adapter
PCARS2_OFF_packetType == 10

PCARS2_OFF_sRpm == 40

PCARS2_OFF_sMaxRpm == 42

PCARS2_OFF_sGearNumGears == 45

\* Led_matrix.get_shape() of the 8x8 Unicorn hat
WIDTH == 8

HEIGHT == 8

\* Bitmaps for the gear such as N for neutral, R for reverse, etc.
\* (the two scripts hold the same table); row h of glyph i is
\* GEAR_BITS[i + 1][h + 1], bit 7 is the leftmost column.
GEAR_BITS ==
  <<
     <<  0,  0, 33, 49, 41, 37, 35, 33 >>,  \* N
     <<  0,  0,  2,  6,  2,  2,  2, 15 >>,  \* 1
     <<  0,  0,  6,  9,  1,  2,  4, 15 >>,  \* 2
     <<  0,  0,  6,  9,  2,  1,  9,  6 >>,  \* 3
     <<  0,  0,  6, 10, 15,  2,  2, 15 >>,  \* 4
     <<  0,  0, 15,  8, 14,  1,  9,  6 >>,  \* 5
     <<  0,  0,  6,  9, 14,  9,  9,  6 >>,  \* 6
     <<  0,  0, 15,  2,  4,  4,  8,  8 >>,  \* 7
     <<  0,  0,  6,  9,  6,  9,  9,  6 >>,  \* 8
     <<  0,  0,  6,  9,  7,  2,  4,  8 >>,  \* 9
     <<  0,  0, 38, 41, 41, 41, 41, 38 >>,  \* 10
     <<  0,  0, 18, 54, 18, 18, 18, 63 >>,  \* 11
     <<  0,  0, 38, 41, 33, 34, 36, 47 >>,  \* 12
     <<  0,  0, 38, 41, 34, 33, 41, 38 >>,  \* 13
     <<  0,  0, 38, 42, 47, 34, 34, 47 >>,  \* 14
     <<  0,  0, 60, 34, 60, 40, 36, 34 >>   \* R
  >>

GEAR_NAMES ==
  << "N", "1", "2", "3", "4", "5", "6", "7", "8", "9",
     "10", "11", "12", "13", "14", "R" >>

\* variant of RPM_LEDS with the columns counted from the right: the path
\* runs up the right-most column and then leftwards along the top
RPM_LEDS_mirrored ==
  [k \in 1 .. 15 |->
     [row |-> <<7, 6, 5, 4, 3, 2, 1, 1, 0, 0, 0, 0, 0, 0, 0>>[k],
      col |-> 7 - <<0, 0, 0, 0, 0, 0, 0, 1, 1, 2, 3, 4, 5, 6, 7>>[k],
      red |-> IF k \in 6 .. 10 THEN 255 ELSE 0,
      green |-> IF k <= 5 THEN 255 ELSE 0,
      blue |-> IF k >= 11 THEN 255 ELSE 0]]

\* The rev (RPM %) indicator starts at the bottom left corner (row=7,col=0)
\* and ends at the top right corner (row=0,col=7).
RPM_LEDS ==
  <<
     [row |-> 7, col |-> 0, red |-> 0, green |-> 255, blue |-> 0],
     [row |-> 6, col |-> 0, red |-> 0, green |-> 255, blue |-> 0],
     [row |-> 5, col |-> 0, red |-> 0, green |-> 255, blue |-> 0],
     [row |-> 4, col |-> 0, red |-> 0, green |-> 255, blue |-> 0],
     [row |-> 3, col |-> 0, red |-> 0, green |-> 255, blue |-> 0],
     [row |-> 2, col |-> 0, red |-> 255, green |-> 0, blue |-> 0],
     [row |-> 1, col |-> 0, red |-> 255, green |-> 0, blue |-> 0],
     [row |-> 1, col |-> 1, red |-> 255, green |-> 0, blue |-> 0],
     [row |-> 0, col |-> 1, red |-> 255, green |-> 0, blue |-> 0],
     [row |-> 0, col |-> 2, red |-> 255, green |-> 0, blue |-> 0],
     [row |-> 0, col |-> 3, red |-> 0, green |-> 0, blue |-> 255],
     [row |-> 0, col |-> 4, red |-> 0, green |-> 0, blue |-> 255],
     [row |-> 0, col |-> 5, red |-> 0, green |-> 0, blue |-> 255],
     [row |-> 0, col |-> 6, red |-> 0, green |-> 0, blue |-> 255],
     [row |-> 0, col |-> 7, red |-> 0, green |-> 0, blue |-> 255]
  >>

\* ------------------------------------------------------------------------
\* Python and struct primitives used by the scripts
\* ------------------------------------------------------------------------

\* data[o] of a bytes object
byte_at(data, o) == data[o + 1]

\* struct code 'H', little endian
unpack_H(data, o) == byte_at(data, o) + 256 * byte_at(data, o + 1)

\* struct code 'B'
unpack_B(data, o) == byte_at(data, o)

\* struct code 'b': two's complement
unpack_b(data, o) ==
  IF byte_at(data, o) >= 128 THEN byte_at(data, o) - 256 ELSE byte_at(data, o)

\* unpack_from(fmt, data, offset) raises struct.error unless the buffer holds
\* at least calcsize(fmt) bytes from offset on
unpack_from_ok(size, data, offset) == Len(data) - offset >= size

\* unpack(fmt, data) raises struct.error unless len(data) == calcsize(fmt)
unpack_ok(size, data) == Len(data) = size

\* variant of list_index reading a negative index as its magnitude
list_index_magnitude(n, i) ==
  IF i >= 0 /\ i < n THEN i
  ELSE IF i < 0 /\ i >= 0 - n THEN 0 - i
  ELSE 0 - 1

\* list[i]: a negative index counts from the end; the result is the
\* position read, or -1 where Python raises IndexError
list_index(n, i) ==
  IF i >= 0 /\ i < n THEN i
  ELSE IF i < 0 /\ i >= 0 - n THEN n + i
  ELSE 0 - 1

\* int & int on non-negative operands
RECURSIVE BitAnd(_, _)
BitAnd(a, b) ==
  IF a = 0 \/ b = 0 THEN 0
  ELSE (a % 2) * (b % 2) + 2 * BitAnd(a \div 2, b \div 2)

\* variant of round that truncates
round_truncating(num, den) == num \div den

\* round(num / den) for num >= 0, den > 0: Python 3 rounds halves to even.
\* The scripts compute the quotient in binary floating point; for 16-bit
\* operands the product with 15 is either an exact half (and the double
\* is then exact) or at least 1/(2 * den) away from one, so the double
\* rounds as the rational does.
round(num, den) ==
  LET q == num \div den
      r == num % den
  IN  IF 2 * r < den THEN q
      ELSE IF 2 * r > den THEN q + 1
      ELSE IF q % 2 = 0 THEN q ELSE q + 1

\* ------------------------------------------------------------------------
\* Display calls: Led_matrix.set_pixel(x, y, r, g, b) and Led_matrix.show()
\* ------------------------------------------------------------------------

set_pixel(x, y, r, g, b) ==
  [op |-> "set_pixel", x |-> x, y |-> y, rgb |-> <<r, g, b>>]

show == [op |-> "show", x |-> 0, y |-> 0, rgb |-> <<0, 0, 0>>]

Cells == (0 .. WIDTH - 1) \X (0 .. HEIGHT - 1)

\* The display executes its first pending call: buf is the pixel buffer,
\* panel the frame the LEDs show, todo the calls still to execute.
do_call(disp) ==
  LET c == Head(disp.todo)
  IN  IF c.op = "set_pixel"
      THEN [disp EXCEPT !.buf[<<c.x, c.y>>] = c.rgb, !.todo = Tail(disp.todo)]
      ELSE [disp EXCEPT !.panel = disp.buf, !.todo = Tail(disp.todo)]

\* the display after all pending calls, in their order
RECURSIVE run_calls(_)
run_calls(disp) ==
  IF disp.todo = <<>> THEN disp ELSE run_calls(do_call(disp))

\* variant of draw_gear that writes the set bits only
draw_gear_set_bits_only(gear_index) ==
  LET bitmap == GEAR_BITS[list_index(Len(GEAR_BITS), gear_index) + 1]
      all == [k \in 1 .. WIDTH * HEIGHT |->
                LET h == (k - 1) \div WIDTH
                    w == (k - 1) % WIDTH
                IN  IF BitAnd(bitmap[h + 1], 2 ^ (7 - w)) # 0
                    THEN set_pixel(w, h, 255, 0, 255)
                    ELSE set_pixel(w, h, 0, 0, 0)]
  IN  SelectSeq(all, LAMBDA c : c.rgb # <<0, 0, 0>>)

\* variant of draw_gear that tests the bits from the low end: the glyph
\* comes out mirrored left to right
draw_gear_mirrored(gear_index) ==
  LET bitmap == GEAR_BITS[list_index(Len(GEAR_BITS), gear_index) + 1]
  IN  [k \in 1 .. WIDTH * HEIGHT |->
         LET h == (k - 1) \div WIDTH
             w == (k - 1) % WIDTH
         IN  IF BitAnd(bitmap[h + 1], 2 ^ w) # 0
             THEN set_pixel(w, h, 255, 0, 255)
             ELSE set_pixel(w, h, 0, 0, 0)]

\* Draw the gear on the 8x8 display: 64 calls, rows outermost.
draw_gear(gear_index) ==
  LET bitmap == GEAR_BITS[list_index(Len(GEAR_BITS), gear_index) + 1]
  IN  [k \in 1 .. WIDTH * HEIGHT |->
         LET h == (k - 1) \div WIDTH
             w == (k - 1) % WIDTH
         IN  IF BitAnd(bitmap[h + 1], 2 ^ (7 - w)) # 0
             THEN set_pixel(w, h, 255, 0, 255)
             ELSE set_pixel(w, h, 0, 0, 0)]

\* variant of the loop of draw_rev without its else branch: the cells from
\* rpm_indicator_stop on are not written
draw_rev_leds_lit_only(rpm_indicator_stop) ==
  LET all == [k \in 1 .. Len(RPM_LEDS) |->
                LET led == RPM_LEDS[k]
                IN  set_pixel(led.col, led.row, led.red, led.green, led.blue)]
  IN  IF rpm_indicator_stop <= 0 THEN <<>>
      ELSE IF rpm_indicator_stop >= Len(RPM_LEDS) THEN all
      ELSE SubSeq(all, 1, rpm_indicator_stop)

\* the loop of draw_rev over RPM_LEDS, given rpm_indicator_stop
draw_rev_leds(rpm_indicator_stop) ==
  [k \in 1 .. Len(RPM_LEDS) |->
     LET led == RPM_LEDS[k]
     IN  IF k - 1 < rpm_indicator_stop
         THEN set_pixel(led.col, led.row, led.red, led.green, led.blue)
         ELSE set_pixel(led.col, led.row, 0, 0, 0)]

\* f12020show.py: draw_rev(rev_lights)
f1_draw_rev(rev_lights) ==
  draw_rev_leds(round(rev_lights * Len(RPM_LEDS), 100))

\* pcars2show.py: draw_rev(rpm, maxrpm); maxrpm = 0 raises ZeroDivisionError
\* in the caller's model before this is used
pcars2_draw_rev(rpm, maxrpm) ==
  draw_rev_leds(round(rpm * Len(RPM_LEDS), maxrpm))

\* ------------------------------------------------------------------------
\* Datagrams offered to the sockets
\* ------------------------------------------------------------------------

\* cars whose records the longest F1 2020 datagram carries
MaxCars == 2

\* content of the bytes no field of interest occupies
Filler(o) == (37 * o + 11) % 256

\* an F1 2020 datagram of len bytes: header fields at their offsets, the
\* record of car sel carrying (gear, rev), the other records carrying
\* the bytes of gear 7 and 66 percent
f1_datagram(len, fmt, id, idx, sel, gear, rev) ==
  [i \in 1 .. len |->
     LET o == i - 1
         c == (o - F1_HEADER_SIZE) \div F1_CAR_TELEMETRY_SIZE
         f == (o - F1_HEADER_SIZE) % F1_CAR_TELEMETRY_SIZE
     IN  IF o = 0 THEN fmt % 256
         ELSE IF o = 1 THEN fmt \div 256
         ELSE IF o = F1_OFF_packetId THEN id
         ELSE IF o = F1_OFF_playerCarIndex THEN idx
         ELSE IF o >= F1_HEADER_SIZE /\ f = F1_OFF_gear
              THEN (IF c = sel THEN gear ELSE 7)
         ELSE IF o >= F1_HEADER_SIZE /\ f = F1_OFF_revLightsPercent
              THEN (IF c = sel THEN rev ELSE 66)
         ELSE Filler(o)]

F1_FullLen == F1_HEADER_SIZE + F1_CAR_TELEMETRY_SIZE * MaxCars

\* lengths below the header size
F1_ShortLens == {4, F1_HEADER_SIZE - 1}

\* lengths from the bare header up to MaxCars whole records
F1_BodyLens ==
  {F1_HEADER_SIZE, F1_FullLen - 1, F1_FullLen}
  \cup { F1_HEADER_SIZE + F1_CAR_TELEMETRY_SIZE * n - 1 : n \in 1 .. MaxCars }
  \cup { F1_HEADER_SIZE + F1_CAR_TELEMETRY_SIZE * n : n \in 1 .. MaxCars }

\* (m_packetFormat, m_packetId) pairs that are not 2020 car telemetry
F1_OtherHeaders == {<<2019, 6>>, <<228, 6>>, <<2020, 7>>}

\* gear bytes: -1 (255), 0..8, 14, 15, 16, -5 (251), -17 (239)
F1_GearBytes == {255, 0, 1, 2, 3, 4, 5, 6, 7, 8, 14, 15, 16, 251, 239}

F1_RevBytes == {0, 30, 50, 255}

F1_Datagrams ==
  { f1_datagram(len, F1_PACKET_FORMAT, eCarTelemetry, 0, 0, 3, 50) :
      len \in F1_ShortLens }
  \cup
  { f1_datagram(F1_FullLen, h[1], h[2], 0, 0, 3, 50) : h \in F1_OtherHeaders }
  \cup
  { f1_datagram(len, F1_PACKET_FORMAT, eCarTelemetry, idx, 0, 3, 50) :
      len \in F1_BodyLens, idx \in 0 .. MaxCars }
  \cup
  { f1_datagram(F1_FullLen, F1_PACKET_FORMAT, eCarTelemetry, 0, 0,
                gear, rev) :
      gear \in F1_GearBytes, rev \in F1_RevBytes }
  \cup
  { f1_datagram(F1_FullLen, F1_PACKET_FORMAT, eCarTelemetry, sel, sel,
                gear, rev) :
      sel \in 0 .. MaxCars - 1, gear \in {255, 2}, rev \in {10, 100} }

\* a Project Cars 2 datagram of len bytes; hdr varies the packet numbers,
\* the partial packet fields and the packet version
pcars2_datagram(len, type, hdr, gearNumGears, rpm, maxrpm) ==
  [i \in 1 .. len |->
     LET o == i - 1
     IN  IF o = PCARS2_OFF_packetType THEN type
         ELSE IF o < PCARS2_HEADER_SIZE THEN (Filler(o) + hdr) % 256
         ELSE IF o = PCARS2_OFF_sRpm THEN rpm % 256
         ELSE IF o = PCARS2_OFF_sRpm + 1 THEN rpm \div 256
         ELSE IF o = PCARS2_OFF_sMaxRpm THEN maxrpm % 256
         ELSE IF o = PCARS2_OFF_sMaxRpm + 1 THEN maxrpm \div 256
         ELSE IF o = PCARS2_OFF_sGearNumGears THEN gearNumGears
         ELSE Filler(o)]

\* lengths below the header size
PCARS2_ShortLens == {4, PCARS2_HEADER_SIZE - 1}

\* lengths from the bare header to one byte more than the record
PCARS2_BodyLens ==
  {PCARS2_HEADER_SIZE, PCARS2_CAR_PHYSICS_SIZE - 1, PCARS2_CAR_PHYSICS_SIZE,
   PCARS2_CAR_PHYSICS_SIZE + 1}

PCARS2_PacketTypes == {eCarPhysics, 1}

PCARS2_HeaderVariants == {0, 1}

\* gear 0 (N) and 15 (R) of a six gear car, gear 3 of a fifteen gear car
PCARS2_GearBytes == {96, 111, 243}

PCARS2_Rpms == {0, 1800, 3000, 6000, 6500}

PCARS2_MaxRpms == {0, 6000}

PCARS2_Datagrams ==
  { pcars2_datagram(len, eCarPhysics, 0, 97, 3000, 6000) :
      len \in PCARS2_ShortLens \cup PCARS2_BodyLens }
  \cup
  { pcars2_datagram(PCARS2_CAR_PHYSICS_SIZE, type, hdr, 97, 3000, 6000) :
      type \in PCARS2_PacketTypes, hdr \in PCARS2_HeaderVariants }
  \cup
  { pcars2_datagram(PCARS2_CAR_PHYSICS_SIZE, eCarPhysics, 0, b, rpm, maxrpm) :
      b \in PCARS2_GearBytes, rpm \in PCARS2_Rpms, maxrpm \in PCARS2_MaxRpms }

\* every value of the combined gear / number of gears byte
PCARS2_GearByteDatagrams ==
  { pcars2_datagram(PCARS2_CAR_PHYSICS_SIZE, eCarPhysics, 0, b, 3000, 6000) :
      b \in 0 .. 255 }

\* ------------------------------------------------------------------------
\* State
\* ------------------------------------------------------------------------

VARIABLES
  adapter,     \* "A": f12020show.py is running, "B": pcars2show.py
  data,        \* the datagram the last recvfrom returned
  recognized,  \* the last datagram passed the header tests of the loop
  calls,       \* display calls made while the last datagram was handled
  locals,      \* current_gear, rev_lights, sRpm, sMaxRpm of main:
               \* <<>> while unbound, <<value>> once assigned
  error,       \* "none", or the exception that ended the process
  buf,         \* pixel buffer of the display
  panel        \* frame the LEDs show (the buffer at the last show)

vars == <<adapter, data, recognized, calls, locals, error, buf, panel>>

Off == <<0, 0, 0>>

Init ==
  /\ adapter \in {"A", "B"}
  /\ data = <<>>
  /\ recognized = FALSE
  /\ calls = <<>>
  /\ locals = [current_gear |-> <<>>, rev_lights |-> <<>>,
               sRpm |-> <<>>, sMaxRpm |-> <<>>]
  /\ error = "none"
  /\ buf = [c \in Cells |-> Off]
  /\ panel = [c \in Cells |-> Off]

\* ------------------------------------------------------------------------
\* One iteration of the loop of f12020show.py main
\* ------------------------------------------------------------------------

\* variant of f1_recognized without the test of m_packetFormat
f1_recognized_any_format(d) ==
  /\ Len(d) >= F1_HEADER_SIZE
  /\ unpack_B(d, F1_OFF_packetId) = eCarTelemetry

\* if len(data) >= calcsize(packet_header_format), and then
\* if m_packetFormat == 2020 and m_packetId == ePacketType.eCarTelemetry
f1_recognized(d) ==
  /\ Len(d) >= F1_HEADER_SIZE
  /\ unpack_H(d, 0) = F1_PACKET_FORMAT
  /\ unpack_B(d, F1_OFF_packetId) = eCarTelemetry

\* variant of f1_offset that always takes the first record of the packet
f1_offset_first_car(d) == F1_HEADER_SIZE

\* offset of the player's record
f1_offset(d) ==
  F1_HEADER_SIZE
    + F1_CAR_TELEMETRY_SIZE * unpack_B(d, F1_OFF_playerCarIndex)

\* fields[eCarTelemetryData.m_gear]
f1_gear(d) == unpack_b(d, f1_offset(d) + F1_OFF_gear)

\* fields[eCarTelemetryData.m_revLightsPercent]
f1_rev_lights(d) == unpack_B(d, f1_offset(d) + F1_OFF_revLightsPercent)

\* what handling datagram d does, given main's locals lc
f1_iteration(d, lc) ==
  IF ~ f1_recognized(d)
  THEN [recognized |-> FALSE, error |-> "none", calls |-> <<>>, locals |-> lc]
  ELSE IF ~ unpack_from_ok(F1_CAR_TELEMETRY_SIZE, d, f1_offset(d))
  THEN [recognized |-> TRUE, error |-> "struct.error", calls |-> <<>>,
        locals |-> lc]
  ELSE IF list_index(Len(GEAR_NAMES), f1_gear(d)) < 0
  THEN [recognized |-> TRUE, error |-> "IndexError", calls |-> <<>>,
        locals |-> [lc EXCEPT !.current_gear = <<f1_gear(d)>>]]
  ELSE [recognized |-> TRUE, error |-> "none",
        calls |-> draw_gear(f1_gear(d)) \o f1_draw_rev(f1_rev_lights(d))
                    \o <<show>>,
        locals |-> [lc EXCEPT !.current_gear = <<f1_gear(d)>>,
                              !.rev_lights = <<f1_rev_lights(d)>>]]

\* ------------------------------------------------------------------------
\* One iteration of the loop of pcars2show.py main
\* ------------------------------------------------------------------------

\* variant of pcars2_recognized that tests mPacketVersion, the byte after
\* mPacketType
pcars2_recognized_by_version(d) ==
  /\ Len(d) >= PCARS2_HEADER_SIZE
  /\ unpack_B(d, PCARS2_OFF_packetType + 1) = eCarPhysics

\* if len(data) >= 12, and then if mPacketType == ePacketType.eCarPhysics
pcars2_recognized(d) ==
  /\ Len(d) >= PCARS2_HEADER_SIZE
  /\ unpack_B(d, PCARS2_OFF_packetType) = eCarPhysics

\* variant of pcars2_gear taking the high four bits
pcars2_gear_high_bits(d) == unpack_B(d, PCARS2_OFF_sGearNumGears) \div 16

\* fields[eCarPhysicsFields.sGearNumGears] & 0x0F
pcars2_gear(d) == BitAnd(unpack_B(d, PCARS2_OFF_sGearNumGears), 15)

pcars2_sRpm(d) == unpack_H(d, PCARS2_OFF_sRpm)

pcars2_sMaxRpm(d) == unpack_H(d, PCARS2_OFF_sMaxRpm)

pcars2_iteration(d, lc) ==
  IF ~ pcars2_recognized(d)
  THEN [recognized |-> FALSE, error |-> "none", calls |-> <<>>, locals |-> lc]
  ELSE IF ~ unpack_ok(PCARS2_CAR_PHYSICS_SIZE, d)
  THEN [recognized |-> TRUE, error |-> "struct.error", calls |-> <<>>,
        locals |-> lc]
  ELSE IF pcars2_sMaxRpm(d) = 0
  THEN [recognized |-> TRUE, error |-> "ZeroDivisionError",
        calls |-> draw_gear(pcars2_gear(d)),
        locals |-> [lc EXCEPT !.current_gear = <<pcars2_gear(d)>>,
                              !.sRpm = <<pcars2_sRpm(d)>>,
                              !.sMaxRpm = <<pcars2_sMaxRpm(d)>>]]
  ELSE [recognized |-> TRUE, error |-> "none",
        calls |-> draw_gear(pcars2_gear(d))
                    \o pcars2_draw_rev(pcars2_sRpm(d), pcars2_sMaxRpm(d))
                    \o <<show>>,
        locals |-> [lc EXCEPT !.current_gear = <<pcars2_gear(d)>>,
                              !.sRpm = <<pcars2_sRpm(d)>>,
                              !.sMaxRpm = <<pcars2_sMaxRpm(d)>>]]

\* ------------------------------------------------------------------------
\* Actions: recvfrom returns datagram d and the loop body runs on it
\* ------------------------------------------------------------------------

f1_main(d) ==
  /\ adapter = "A"
  /\ error = "none"
  /\ LET it == f1_iteration(d, locals)
     IN  /\ data' = d
         /\ recognized' = it.recognized
         /\ calls' = it.calls
         /\ locals' = it.locals
         /\ error' = it.error
  /\ LET disp == run_calls([buf |-> buf, panel |-> panel, todo |-> calls'])
     IN  /\ buf' = disp.buf
         /\ panel' = disp.panel
  /\ UNCHANGED adapter

pcars2_main(d) ==
  /\ adapter = "B"
  /\ error = "none"
  /\ LET it == pcars2_iteration(d, locals)
     IN  /\ data' = d
         /\ recognized' = it.recognized
         /\ calls' = it.calls
         /\ locals' = it.locals
         /\ error' = it.error
  /\ LET disp == run_calls([buf |-> buf, panel |-> panel, todo |-> calls'])
     IN  /\ buf' = disp.buf
         /\ panel' = disp.panel
  /\ UNCHANGED adapter

Next ==
  \/ \E d \in F1_Datagrams : f1_main(d)
  \/ \E d \in PCARS2_Datagrams : pcars2_main(d)

Spec == Init /\ [][Next]_vars

\* The Project Cars 2 script receiving, as its first datagram, a car physics
\* datagram with any value of the combined gear byte.
NextGearByte ==
  \E d \in PCARS2_GearByteDatagrams : data = <<>> /\ pcars2_main(d)

SpecGearByte == Init /\ [][NextGearByte]_vars

\* ------------------------------------------------------------------------
\* Observations used by the properties.  They read the datagram bytes and
\* the recorded display calls directly.
\* ------------------------------------------------------------------------

\* byte at wire offset o of the last datagram
Byte(o) == data[o + 1]

\* positions of the show calls among the calls of the last datagram
ShowCalls == { k \in 1 .. Len(calls) : calls[k].op = "show" }

\* the last datagram has a 2020 car telemetry header
IsF1Telemetry ==
  /\ Len(data) >= 24
  /\ Byte(0) + 256 * Byte(1) = 2020
  /\ Byte(5) = 6

\* offset of the record of the car the header's player index selects
F1RecordOffset == 24 + 58 * Byte(22)

\* the last datagram holds the whole record of the player's car
F1RecordPresent == IsF1Telemetry /\ Len(data) >= F1RecordOffset + 58

\* the signed gear byte and the percentage of that record
F1GearByte ==
  IF Byte(F1RecordOffset + 15) >= 128
  THEN Byte(F1RecordOffset + 15) - 256
  ELSE Byte(F1RecordOffset + 15)

F1RevByte == Byte(F1RecordOffset + 19)

\* the last datagram has a car physics header
IsCarPhysics == Len(data) >= 12 /\ Byte(10) = 0

\* the last datagram holds a whole car physics record
CarPhysicsPresent == IsCarPhysics /\ Len(data) >= 559

PCars2Rpm == Byte(40) + 256 * Byte(41)

PCars2MaxRpm == Byte(42) + 256 * Byte(43)

\* bit (7 - w) of row h of glyph i
GlyphBit(i, w, h) == (GEAR_BITS[i + 1][h + 1] \div (2 ^ (7 - w))) % 2 = 1

\* the first 64 calls blit glyph i: cell (w, h) in row-major order, magenta
\* where the bit is set and off elsewhere
PaintsGlyph(i) ==
  /\ Len(calls) >= 64
  /\ \A k \in 1 .. 64 :
       LET w == (k - 1) % 8
           h == (k - 1) \div 8
       IN  /\ calls[k].op = "set_pixel"
           /\ calls[k].x = w
           /\ calls[k].y = h
           /\ calls[k].rgb = IF GlyphBit(i, w, h) THEN <<255, 0, 255>> ELSE Off

\* calls 65..79 are the meter: one write per path cell, in path order
PaintsMeter ==
  /\ Len(calls) >= 79
  /\ \A i \in 1 .. 15 :
       /\ calls[64 + i].op = "set_pixel"
       /\ calls[64 + i].x = RPM_LEDS[i].col
       /\ calls[64 + i].y = RPM_LEDS[i].row

\* path positions (from 0) the meter paints with their colour
LitCells == { i \in 0 .. 14 : calls[65 + i].rgb # Off }

\* the whole cycle: glyph, then meter, then one show as the last call
FullCycle ==
  /\ Len(calls) = 80
  /\ ShowCalls = {80}
  /\ PaintsMeter

\* ------------------------------------------------------------------------
\* Properties
\* ------------------------------------------------------------------------

\* C1: in the F1 2020 adapter a datagram causes set_pixel and show calls
\* only if it is at least 24 bytes long and its header has format 2020 and
\* packet id 6; any other datagram (one of 4 bytes included) causes no
\* display call and the loop goes on to the next receive.
C1_OnlyTelemetryPaints ==
  (adapter = "A" /\ ~ IsF1Telemetry) =>
     (calls = <<>> /\ error = "none" /\ ~ recognized)

C1_Witness ==
  /\ adapter = "A"
  /\ Len(data) = 4
  /\ calls = <<>>
  /\ error = "none"
  /\ panel # [c \in Cells |-> Off]

\* C2: in the Project Cars 2 adapter a datagram is taken up for processing
\* iff it is at least 12 bytes long and its packet type is 0, whatever its
\* packet numbers, partial packet fields and packet version are; any other
\* datagram causes no display call.
C2_ClassifiedByLengthAndType ==
  (adapter = "B" /\ data # <<>>) =>
     /\ recognized <=> IsCarPhysics
     /\ IsCarPhysics <=> (calls # <<>> \/ error # "none")
     /\ ~ IsCarPhysics => (calls = <<>> /\ error = "none")

\* a whole car physics datagram of the second header variant (packet
\* version byte 163 instead of 162) was painted and flushed
C2_Witness ==
  /\ adapter = "B"
  /\ Len(data) = 559
  /\ Byte(10) = 0
  /\ Byte(11) = 163
  /\ recognized
  /\ FullCycle

\* C3 (as claimed): a datagram with a recognized header whose body is too
\* short for the required record is dropped: no display call, and the loop
\* continues with the next datagram.
C3_TruncatedDropped ==
  ( \/ (adapter = "A" /\ IsF1Telemetry /\ Len(data) < F1RecordOffset + 58)
    \/ (adapter = "B" /\ IsCarPhysics /\ Len(data) < 559) )
  => (calls = <<>> /\ error = "none")

\* C4 (as claimed): in the F1 2020 adapter a telemetry datagram whose signed
\* gear byte is outside -1..14 is rejected: nothing is painted for it and
\* the loop continues.
C4_GearOutOfRangeRejected ==
  (adapter = "A" /\ F1RecordPresent /\ F1GearByte \notin -1 .. 14)
  => (calls = <<>> /\ error = "none")

\* C5 (as claimed): in the Project Cars 2 adapter a car physics datagram
\* with max_rpm = 0 completes its cycle: the glyph is painted, all 15 meter
\* cells are painted off and exactly one show is issued.
C5_ZeroMaxRpmCompletes ==
  (adapter = "B" /\ IsCarPhysics /\ Len(data) = 559 /\ PCars2MaxRpm = 0)
  => /\ error = "none"
     /\ PaintsGlyph(Byte(45) % 16)
     /\ FullCycle
     /\ LitCells = {}

\* the datagram the specification accepts: recognized header, whole record,
\* gear inside its domain
Accepted ==
  \/ (adapter = "A" /\ F1RecordPresent /\ F1GearByte \in -1 .. 14)
  \/ (adapter = "B" /\ CarPhysicsPresent)

\* C6 (as claimed): a datagram produces at most one show; a rejected one
\* produces none (and no set_pixel); an accepted one produces exactly one,
\* after all its set_pixel calls, the glyph being painted before the meter.
C6_OneFlushPerDatagram ==
  data # <<>> =>
     /\ Cardinality(ShowCalls) <= 1
     /\ ~ Accepted => calls = <<>>
     /\ Accepted => FullCycle /\ (\E i \in 0 .. 15 : PaintsGlyph(i))

\* the frame that glyph i and a meter lit up to (not including) path
\* position stop make: meter colours on the path, the glyph elsewhere
ExpectedFrame(i, stop) ==
  [c \in Cells |->
     LET on == { k \in 1 .. 15 :
                   RPM_LEDS[k].col = c[1] /\ RPM_LEDS[k].row = c[2] }
     IN  IF on # {}
         THEN LET k == CHOOSE k \in on : TRUE
              IN  IF k - 1 < stop
                  THEN <<RPM_LEDS[k].red, RPM_LEDS[k].green, RPM_LEDS[k].blue>>
                  ELSE Off
         ELSE IF GlyphBit(i, c[1], c[2]) THEN <<255, 0, 255>> ELSE Off]

\* the frame of the gear and RPM values decoded from the last datagram that
\* was decoded
DatagramFrame ==
  LET g == locals.current_gear[1]
  IN  ExpectedFrame(IF g < 0 THEN g + 16 ELSE g,
                    IF adapter = "A"
                    THEN round(locals.rev_lights[1] * 15, 100)
                    ELSE round(locals.sRpm[1] * 15, locals.sMaxRpm[1]))

\* C7: the frame a flush shows is a function of the (gear, RPM) values of
\* the datagram that was flushed alone - all 64 pixels, nothing of an
\* earlier datagram surviving - and a datagram without flush leaves the
\* shown frame as it was.
C7_LatestFrameWins ==
  [][ IF ShowCalls' # {}
      THEN panel' = DatagramFrame'
      ELSE panel' = panel ]_vars

C7_Witness ==
  /\ ShowCalls = {80}
  /\ panel = DatagramFrame
  /\ panel[<<0, 7>>] = <<0, 255, 0>>
  /\ \E c \in Cells : panel[c] = <<255, 0, 255>>

\* C8: in the F1 2020 adapter gear -1 selects glyph 15 (R) and each gear in
\* 0..8 the glyph of the same index, so the glyphs painted for -1, 0, 1..8
\* are the ones named R, N, 1..8.
C8_F1GearGlyph ==
  (adapter = "A" /\ F1RecordPresent /\ F1GearByte \in -1 .. 8) =>
     LET i == IF F1GearByte = -1 THEN 15 ELSE F1GearByte
     IN  /\ error = "none"
         /\ PaintsGlyph(i)
         /\ GEAR_NAMES[i + 1]
              = <<"R", "N", "1", "2", "3", "4", "5", "6", "7", "8">>[F1GearByte + 2]

C8_Witness ==
  /\ adapter = "A"
  /\ F1RecordPresent
  /\ F1GearByte = -1
  /\ PaintsGlyph(15)
  /\ ShowCalls = {80}

\* C9: in the Project Cars 2 adapter the gear used for rendering is the low
\* four bits of the combined gear byte, whatever its high four bits are: a
\* glyph index in 0..15, 0 painting N and 15 painting R.
C9_GearIsLowNibble ==
  (adapter = "B" /\ IsCarPhysics /\ Len(data) = 559) =>
     /\ locals.current_gear = <<Byte(45) % 16>>
     /\ PaintsGlyph(Byte(45) % 16)
     /\ (Byte(45) % 16 = 0) => GEAR_NAMES[locals.current_gear[1] + 1] = "N"
     /\ (Byte(45) % 16 = 15) => GEAR_NAMES[locals.current_gear[1] + 1] = "R"

\* byte 0xAF: high bits 10, low bits 15
C9_Witness ==
  /\ adapter = "B"
  /\ Len(data) = 559
  /\ Byte(45) = 175
  /\ locals.current_gear = <<15>>
  /\ PaintsGlyph(15)
  /\ ShowCalls = {80}

\* C10: the meter lights the first lit cells of the path, lit being
\* ratio * 15 rounded to the nearest integer and clamped to 0..15 (ratio:
\* percent / 100, or rpm / max_rpm): none at ratio 0, 8 at 0.5, all 15 at 1
\* and above, and the meter writes path cells only.
C10_MeterCount ==
  Len(calls) >= 79 =>
     LET num == IF adapter = "A" THEN F1RevByte ELSE PCars2Rpm
         den == IF adapter = "A" THEN 100 ELSE PCars2MaxRpm
         lit == Cardinality(LitCells)
         err == 15 * num - lit * den
     IN  /\ PaintsMeter
         /\ LitCells = 0 .. lit - 1
         /\ 30 * num > 29 * den => lit = 15
         /\ 30 * num <= 29 * den => (2 * err <= den /\ 0 - 2 * err <= den)
         /\ num = 0 => lit = 0
         /\ 2 * num = den => lit = 8
         /\ num >= den => lit = 15

\* a percentage above 100
C10_Witness ==
  /\ adapter = "A"
  /\ F1RecordPresent
  /\ F1RevByte = 255
  /\ FullCycle
  /\ LitCells = 0 .. 14

\* C11: in the F1 2020 adapter, for every player index and every telemetry
\* datagram long enough to hold that car's record, the gear and the rev
\* lights percentage the rendering uses are the signed byte at offset
\* 24 + 58 * index + 15 and the unsigned byte at offset 24 + 58 * index + 19:
\* the record of the selected car and of no other.
C11_PlayerRecordDecoded ==
  (adapter = "A" /\ F1RecordPresent) =>
     /\ locals.current_gear = <<F1GearByte>>
     /\ F1GearByte \in -1 .. 14 =>
          LET lit == Cardinality(LitCells)
              err == 15 * F1RevByte - lit * 100
          IN  /\ locals.rev_lights = <<F1RevByte>>
              /\ PaintsGlyph(IF F1GearByte = -1 THEN 15 ELSE F1GearByte)
              /\ FullCycle
              /\ LitCells = 0 .. lit - 1
              /\ 30 * F1RevByte > 2900 => lit = 15
              /\ 30 * F1RevByte <= 2900 => (2 * err <= 100 /\ 0 - 2 * err <= 100)

\* player index 1 with gear -1 at 10 percent, while the record of car 0
\* carries gear 7 at 66 percent
C11_Witness ==
  /\ adapter = "A"
  /\ F1RecordPresent
  /\ Byte(22) = 1
  /\ F1GearByte = -1
  /\ F1RevByte = 10
  /\ Byte(24 + 15) = 7
  /\ Byte(24 + 19) = 66
  /\ locals.current_gear = <<-1>>
  /\ locals.rev_lights = <<10>>
  /\ PaintsGlyph(15)
  /\ LitCells = {0, 1}

\* C12: the glyph table is total and injective over the indices 0..15: 16
\* bitmaps of 8 rows each, pairwise distinct; draw_gear(i) paints cell
\* (x = w, y = h) magenta when bit (7 - w) of row h of bitmap i is set and
\* off otherwise, for all 64 cells, so what it paints is the glyph of i and
\* of no other index; bitmap 0 (N) has rows 0 and 1 blank and rows 2..7
\* equal to 00100001, 00110001, 00101001, 00100101, 00100011, 00100001.
C12_GlyphTable ==
  /\ Len(GEAR_BITS) = 16
  /\ \A i \in 1 .. 16 :
       /\ Len(GEAR_BITS[i]) = 8
       /\ \A h \in 1 .. 8 : GEAR_BITS[i][h] \in 0 .. 255
  /\ \A i, j \in 1 .. 16 : GEAR_BITS[i] = GEAR_BITS[j] => i = j
  /\ GEAR_BITS[1] = <<0, 0, 33, 49, 41, 37, 35, 33>>
  /\ Len(calls) >= 64 =>
       /\ locals.current_gear[1] \in 0 .. 15
       /\ \A i \in 0 .. 15 : PaintsGlyph(i) <=> i = locals.current_gear[1]

\* index 0 drawn: row 2 is 00100001, so cells (2, 2) and (7, 2) are magenta
\* and cell (0, 2) is off
C12_Witness ==
  /\ adapter = "B"
  /\ Len(data) = 559
  /\ Byte(45) = 96
  /\ locals.current_gear = <<0>>
  /\ PaintsGlyph(0)
  /\ calls[2 * 8 + 2 + 1].rgb = <<255, 0, 255>>
  /\ calls[2 * 8 + 7 + 1].rgb = <<255, 0, 255>>
  /\ calls[2 * 8 + 0 + 1].rgb = Off
  /\ \A k \in 1 .. 16 : calls[k].rgb = Off

\* C13 (as claimed): in the Project Cars 2 adapter a car physics datagram
\* longer than the car physics record is accepted like one of exactly that
\* size: the record is decoded from its leading bytes and exactly one paint
\* and flush cycle is performed.
C13_LongerAccepted ==
  (adapter = "B" /\ IsCarPhysics /\ Len(data) > 559 /\ PCars2MaxRpm # 0) =>
     /\ error = "none"
     /\ locals.current_gear = <<Byte(45) % 16>>
     /\ PaintsGlyph(Byte(45) % 16)
     /\ FullCycle

\* rpm_indicator_stop of the last datagram, from its bytes
MeterLitCount ==
  IF adapter = "A"
  THEN round(F1RevByte * 15, 100)
  ELSE round(PCars2Rpm * 15, PCars2MaxRpm)

\* the colour of path position i (from 0): green, red, blue in fives
PathColour(i) ==
  IF i <= 4 THEN <<0, 255, 0>>
  ELSE IF i <= 9 THEN <<255, 0, 0>>
  ELSE <<0, 0, 255>>

\* the pixel buffer at path position i (from 0)
PathPixel(b, i) == b[<<RPM_LEDS[i + 1].col, RPM_LEDS[i + 1].row>>]

\* in a flushed cycle the calls between the 64 of the glyph and the show are
\* one write per path cell, in path order, with the colour of the position
\* below the lit count and off from it on, and the buffer holds just that
MeterWrites ==
  ShowCalls # {} =>
     /\ Len(calls) = 80
     /\ calls[80].op = "show"
     /\ \A i \in 0 .. 14 :
          /\ calls[65 + i] =
               [op |-> "set_pixel",
                x |-> RPM_LEDS[i + 1].col,
                y |-> RPM_LEDS[i + 1].row,
                rgb |-> IF i < MeterLitCount THEN PathColour(i) ELSE Off]
          /\ PathPixel(buf, i) =
               IF i < MeterLitCount THEN PathColour(i) ELSE Off

\* C14: draw_rev writes the 15 cells of the meter path and no other pixel:
\* path position i gets its own colour when i < lit_count (green for 0..4,
\* red for 5..9, blue for 10..14) and (0,0,0) when i >= lit_count; drawing
\* again with the same ratio leaves the same pixel values.
C14_MeterWrites ==
  [][ /\ MeterWrites'
      /\ (ShowCalls # {} /\ ShowCalls' # {} /\ MeterLitCount' = MeterLitCount)
           => \A i \in 0 .. 14 : PathPixel(buf', i) = PathPixel(buf, i) ]_vars

\* 3000 of 6000 rpm: positions 0..7 lit (five green, three red, the last of
\* them at row 1, column 1), positions 8..14 written off
C14_Witness ==
  /\ adapter = "B"
  /\ Len(data) = 559
  /\ PCars2Rpm = 3000
  /\ PCars2MaxRpm = 6000
  /\ ShowCalls = {80}
  /\ LitCells = 0 .. 7
  /\ calls[65].rgb = <<0, 255, 0>>
  /\ calls[72].rgb = <<255, 0, 0>>
  /\ calls[73] = [op |-> "set_pixel", x |-> 1, y |-> 0, rgb |-> Off]
  /\ buf[<<1, 1>>] = <<255, 0, 0>>
  /\ buf[<<7, 0>>] = Off

\* glyph index of the gear value decoded from the last decoded datagram
ShownGlyph ==
  IF locals.current_gear[1] < 0
  THEN locals.current_gear[1] + 16
  ELSE locals.current_gear[1]

\* C15: the gear and RPM regions do not overlap: no glyph 0..15 has a set bit
\* at a cell of the meter path, so after any complete cycle every set bit of
\* the selected glyph is shown magenta and every cell of the meter path
\* shows its meter colour or off.
C15_RegionsDisjoint ==
  /\ \A i \in 0 .. 15 : \A k \in 1 .. 15 :
       ~ GlyphBit(i, RPM_LEDS[k].col, RPM_LEDS[k].row)
  /\ ShowCalls # {} =>
       /\ \A c \in Cells :
            GlyphBit(ShownGlyph, c[1], c[2]) => panel[c] = <<255, 0, 255>>
       /\ \A k \in 1 .. 15 :
            panel[<<RPM_LEDS[k].col, RPM_LEDS[k].row>>]
              \in {<<RPM_LEDS[k].red, RPM_LEDS[k].green, RPM_LEDS[k].blue>>, Off}

\* gear 2 at 100 percent: the whole path lit in its colours and every set
\* bit of glyph 2 magenta
C15_Witness ==
  /\ adapter = "A"
  /\ F1RecordPresent
  /\ F1GearByte = 2
  /\ F1RevByte = 100
  /\ ShowCalls = {80}
  /\ \A k \in 1 .. 15 :
       panel[<<RPM_LEDS[k].col, RPM_LEDS[k].row>>]
         = <<RPM_LEDS[k].red, RPM_LEDS[k].green, RPM_LEDS[k].blue>>
  /\ { c \in Cells : panel[c] = <<255, 0, 255>> }
       = { c \in Cells : GlyphBit(2, c[1], c[2]) }
  /\ \E c \in Cells : panel[c] = <<255, 0, 255>>

\* C16 (as claimed): the RPM meter uses only column 0 and row 0: each of
\* the 15 cells draw_rev writes has col = 0 or row = 0, the 15 cells are
\* pairwise distinct, and the path runs from the bottom left corner (row 7,
\* col 0) at position 0 to the top right corner (row 0, col 7) at position
\* 14.
C16_MeterOnEdge ==
  ShowCalls # {} =>
     /\ Len(RPM_LEDS) = 15
     /\ PaintsMeter
     /\ \A i \in 65 .. 79 : calls[i].x = 0 \/ calls[i].y = 0
     /\ \A i, j \in 65 .. 79 :
          (calls[i].x = calls[j].x /\ calls[i].y = calls[j].y) => i = j
     /\ calls[65].x = 0 /\ calls[65].y = 7
     /\ calls[79].x = 7 /\ calls[79].y = 0

====
